---- MODULE Spec2Model ----
(***************************************************************************)
(* NonPartitionedTableAnalysisJob                                          *)
(* (pkg/statistics/handle/autoanalyze/priorityqueue).                      *)
(*                                                                         *)
(* Every variable is a function over the job instances that exist.  One    *)
(* worker drives one job: the operations on a job start only when no       *)
(* operation is running on it (pc[j] = "idle").  Analyze is split at its   *)
(* calls to collaborators (session pool, exec.AutoAnalyze, the hooks); the *)
(* other operations are single steps.                                      *)
(***************************************************************************)
EXTENDS Integers, Sequences, FiniteSets, TLC

\* ------------------------------------------------------------------ bounds
MaxIndexes == 3      \* longest newly-added-index list drawn by Init
MaxVersion == 2      \* analyze versions range over 1..MaxVersion
MaxCalls   == 2      \* Analyze / IsValidToAnalyze calls per job instance

\* ------------------------------------------------------- input universes
Jobs       == {1}
Schemas    == {"db1", "db2"}
Tables     == {"t1"}
IndexNames == {"ia", "ib"}
Hooks      == {"h1", "h2"}
Versions   == 1..MaxVersion          \* analyze versions of a session
StatsVersions == {1, 2}               \* statistics versions of a table
Reasons    == {"last failed analysis is too recent"}
Nil        == "nil"
ErrNoSession == "ErrNoSession"
NoSession  == [AnalyzeVersion |-> 0]   \* no session context at hand

SeqsUpTo(S, n) == UNION {[1..k -> S] : k \in 0..n}

IndicatorValues ==
    {[ChangePercentage |-> 1, TableSize |-> 10, LastAnalysisDuration |-> 5]}

\* ------------------------------------------------------------- the code
analyzeTable == "analyzeTable"
analyzeIndex == "analyzeIndex"

NewNonPartitionedTableAnalysisJob(schema, tableName, tableID, indexes, tableStatsVer, indicators) ==
    [successHook   |-> Nil,
     failureHook   |-> Nil,
     TableSchema   |-> schema,
     TableName     |-> tableName,
     TableID       |-> tableID,
     Indexes       |-> indexes,
     TableStatsVer |-> tableStatsVer,
     Indicators    |-> indicators,
     Weight        |-> 0]

GetTableID(j) == j.TableID

\* Variant: the job is built anew around the weight, the hooks are lost.
SetWeight_Rebuilds(j, weight) ==
    [NewNonPartitionedTableAnalysisJob(j.TableSchema, j.TableName, j.TableID,
                                       j.Indexes, j.TableStatsVer, j.Indicators)
        EXCEPT !.Weight = weight]

SetWeight(j, weight) == [j EXCEPT !.Weight = weight]

GetWeight(j) == j.Weight

GetIndicators(j) == j.Indicators

\* Variant: the indicators are copied field by field and one is forgotten.
SetIndicators_ForgetsDuration(j, indicators) ==
    [j EXCEPT !.Indicators.ChangePercentage = indicators.ChangePercentage,
              !.Indicators.TableSize = indicators.TableSize]

SetIndicators(j, indicators) == [j EXCEPT !.Indicators = indicators]

\* Variant: the comparison lets the empty list through.
HasNewlyAddedIndex_OrEmpty(j) == Len(j.Indexes) >= 0

\* Variant: a single newly added index is not seen.
HasNewlyAddedIndex_MoreThanOne(j) == Len(j.Indexes) > 1

HasNewlyAddedIndex(j) == Len(j.Indexes) > 0

getAnalyzeType(j) ==
    IF HasNewlyAddedIndex(j) THEN analyzeIndex ELSE analyzeTable

\* Variant: the index name is pasted into the statement text.
GenSQLForAnalyzeIndex_Pasted(j, index) ==
    [sql    |-> <<"analyze table ", "%n", ".", "%n", " index ", index>>,
     params |-> <<j.TableSchema, j.TableName>>]

\* String: the values handed to Sprintf, in the order of the format.
String(j) ==
    <<getAnalyzeType(j), j.Indexes, j.TableSchema, j.TableName, j.TableID,
      j.TableStatsVer, j.Indicators.ChangePercentage, j.Indicators.TableSize,
      j.Indicators.LastAnalysisDuration, j.Weight>>

\* A SQL template is the sequence of its pieces; "%n" is an identifier
\* placeholder.
GenSQLForAnalyzeTable(j) ==
    [sql    |-> <<"analyze table ", "%n", ".", "%n">>,
     params |-> <<j.TableSchema, j.TableName>>]

GenSQLForAnalyzeIndex(j, index) ==
    [sql    |-> <<"analyze table ", "%n", ".", "%n", " index ", "%n">>,
     params |-> <<j.TableSchema, j.TableName, index>>]

\* Variant: a missing hook makes the deferred function call the other one.
DeferredHooks_FallsBack(j, id, succ) ==
    LET first  == IF succ THEN j.successHook ELSE j.failureHook
        second == IF succ THEN j.failureHook ELSE j.successHook
    IN IF first # Nil
       THEN <<[kind |-> IF succ THEN "success" ELSE "failure",
               hook |-> first, arg |-> id]>>
       ELSE IF second # Nil
            THEN <<[kind |-> IF succ THEN "failure" ELSE "success",
                    hook |-> second, arg |-> id]>>
            ELSE <<>>

\* Variant: the hook is handed the job the variable last pointed at.
DeferredHooks_OtherJob(j, id, succ) ==
    IF succ
    THEN IF j.successHook # Nil
         THEN <<[kind |-> "success", hook |-> j.successHook, arg |-> 2]>>
         ELSE <<>>
    ELSE IF j.failureHook # Nil
         THEN <<[kind |-> "failure", hook |-> j.failureHook, arg |-> 2]>>
         ELSE <<>>

\* Variant: the deferred function tests the flag the wrong way round.
DeferredHooks_Negated(j, id, succ) ==
    IF ~succ
    THEN IF j.successHook # Nil
         THEN <<[kind |-> "success", hook |-> j.successHook, arg |-> id]>>
         ELSE <<>>
    ELSE IF j.failureHook # Nil
         THEN <<[kind |-> "failure", hook |-> j.failureHook, arg |-> id]>>
         ELSE <<>>

\* Variant: the deferred function calls both hooks.
DeferredHooks_Both(j, id, succ) ==
    (IF j.successHook # Nil
     THEN <<[kind |-> "success", hook |-> j.successHook, arg |-> id]>>
     ELSE <<>>)
    \o (IF j.failureHook # Nil
        THEN <<[kind |-> "failure", hook |-> j.failureHook, arg |-> id]>>
        ELSE <<>>)

\* The deferred function of Analyze: the hook invocations it makes, each
\* recorded as the slot it was read from, the hook called and its argument.
DeferredHooks(j, id, succ) ==
    IF succ
    THEN IF j.successHook # Nil
         THEN <<[kind |-> "success", hook |-> j.successHook, arg |-> id]>>
         ELSE <<>>
    ELSE IF j.failureHook # Nil
         THEN <<[kind |-> "failure", hook |-> j.failureHook, arg |-> id]>>
         ELSE <<>>

\* Variant: the closure reports a failed statement as an error.
ClosureReturn_StmtError(succ) == IF succ THEN Nil ELSE "ErrAnalyzeFailed"

\* The value the closure handed to CallWithSCtx returns.
ClosureReturn(succ) == Nil

\* Variant: the version is not looked at, the loop is always taken.
ClosureEntry_AlwaysLoop(j, sctx) ==
    IF getAnalyzeType(j) = analyzeTable
    THEN [pc |-> "analyzeTable", succ |-> TRUE]
    ELSE IF Len(j.Indexes) = 0
         THEN [pc |-> "put", succ |-> TRUE]
         ELSE [pc |-> "loop", succ |-> TRUE]

\* The switch of the closure, up to the first statement it executes:
\* the position reached and the value the flag has if nothing is executed.
ClosureEntry(j, sctx) ==
    IF getAnalyzeType(j) = analyzeTable
    THEN [pc |-> "analyzeTable", succ |-> TRUE]
    ELSE \* analyzeIndexes
         IF Len(j.Indexes) = 0
         THEN [pc |-> "put", succ |-> TRUE]
         ELSE IF sctx.AnalyzeVersion = 1
              THEN [pc |-> "loop", succ |-> TRUE]
              ELSE [pc |-> "first", succ |-> TRUE]

\* Variant: a failed statement makes the job leave with its session.
LoopStep_KeepsSession(j, k, ok) ==
    IF ~ok
    THEN [pc |-> "defer", succ |-> FALSE, i |-> k]
    ELSE IF k < Len(j.Indexes)
         THEN [pc |-> "loop", succ |-> TRUE, i |-> k + 1]
         ELSE [pc |-> "put", succ |-> TRUE, i |-> k]

\* Variant: the loop goes on after a failed statement.
LoopStep_NoAbort(j, k, ok) ==
    IF k < Len(j.Indexes)
    THEN [pc |-> "loop", succ |-> TRUE, i |-> k + 1]
    ELSE [pc |-> "put", succ |-> ok, i |-> k]

\* One iteration of the version-1 loop of analyzeIndexes, after the
\* statement of the k-th index returned ok.
LoopStep(j, k, ok) ==
    IF ~ok
    THEN [pc |-> "put", succ |-> FALSE, i |-> k]
    ELSE IF k < Len(j.Indexes)
         THEN [pc |-> "loop", succ |-> TRUE, i |-> k + 1]
         ELSE [pc |-> "put", succ |-> TRUE, i |-> k]

\* Variant: the last index is taken instead of the first.
firstIndex_Last(j) == j.Indexes[Len(j.Indexes)]

firstIndex(j) == j.Indexes[1]

\* Variant: the failure hook is called whatever the verdict.
GateHooks_Always(j, id, valid) ==
    IF j.failureHook # Nil
    THEN <<[kind |-> "failure", hook |-> j.failureHook, arg |-> id]>>
    ELSE <<>>

\* Variant: the reason is lost on the way out.
GateReturn_NoReason(valid, failReason) ==
    IF ~valid THEN [valid |-> FALSE, reason |-> ""]
              ELSE [valid |-> TRUE, reason |-> ""]

\* The hook invocations of IsValidToAnalyze and its return values.
GateHooks(j, id, valid) ==
    IF ~valid /\ j.failureHook # Nil
    THEN <<[kind |-> "failure", hook |-> j.failureHook, arg |-> id]>>
    ELSE <<>>

GateReturn(valid, failReason) ==
    IF ~valid THEN [valid |-> FALSE, reason |-> failReason]
              ELSE [valid |-> TRUE, reason |-> ""]

\* ------------------------------------------------------- collaborators
\* The eligibility oracle: the context carries the tables that are not to
\* be analyzed now, and the reason.
GateContexts ==
    {[blocked |-> b, reason |-> r] :
        b \in {{}} \cup {{<<s, t>>} : s \in Schemas, t \in Tables},
        r \in Reasons}

isValidToAnalyze(ctx, schema, tableName) ==
    IF <<schema, tableName>> \in ctx.blocked
    THEN [valid |-> FALSE, reason |-> ctx.reason]
    ELSE [valid |-> TRUE, reason |-> ""]

\* CallWithSCtx returns the pool's error when no session can be had, and
\* the closure's return value otherwise.
CallWithSCtxReturn(fErr) == fErr

\* ---------------------------------------------------------------- state
VARIABLES
    job,        \* job[j]: the fields of the job instance
    pc,         \* pc[j]: position of the worker inside Analyze, or "idle"
    success,    \* success[j]: the local flag of Analyze
    i,          \* i[j]: position of the version-1 loop in Indexes
    sctx,       \* sctx[j]: the session acquired by the current/last Analyze
    held,       \* held[j]: the job holds a session of the pool
    err,        \* err[j]: the value CallWithSCtx returns
    stmts,      \* stmts[j]: statements run by the current/last Analyze
    fired,      \* fired[j]: hook invocations of the current/last operation
    ret,        \* ret[j]: what the last finished operation returned
    gate,       \* gate[j]: context and verdict of the last IsValidToAnalyze
    nCalls,     \* nCalls[j]: Analyze / IsValidToAnalyze calls so far
    hookCount,  \* hookCount[j]: invocations of each hook slot so far
    nFiring,    \* nFiring[j]: Analyze calls and negative IsValidToAnalyze calls
    gateFired,  \* gateFired[j]: IsValidToAnalyze has fired the failure hook
    afterGate,  \* afterGate[j]: hook invocations made after that
    expect      \* expect[j]: the constructor's table id, and the weight and
                \* indicators last given to the job (by the constructor or
                \* a setter)

vars == <<job, pc, success, i, sctx, held, err, stmts, fired, ret, gate,
          nCalls, nFiring, hookCount, gateFired, afterGate, expect>>

NoRet == [op |-> "none", arg |-> Nil, err |-> Nil, valid |-> TRUE,
          reason |-> "", sql |-> <<>>, params |-> <<>>, val |-> Nil]
NoGate == [ctx |-> [blocked |-> {}, reason |-> ""], valid |-> TRUE,
           reason |-> ""]

\* The arguments of the constructor.
CtorArgs ==
    [schema : Schemas, tableName : Tables, tableID : {100},
     indexes : SeqsUpTo(IndexNames, MaxIndexes),
     tableStatsVer : StatsVersions, indicators : IndicatorValues]

\* The state after the jobs J have been constructed with arguments of A.
InitOver(J, A) ==
    /\ \E c \in [J -> A] :
          /\ job = [j \in J |->
                      NewNonPartitionedTableAnalysisJob(
                          c[j].schema, c[j].tableName, c[j].tableID,
                          c[j].indexes, c[j].tableStatsVer, c[j].indicators)]
          /\ expect = [j \in J |-> [TableID |-> c[j].tableID,
                                     Indicators |-> c[j].indicators,
                                     Weight |-> 0]]
    /\ pc = [j \in J |-> "idle"]
    /\ success = [j \in J |-> TRUE]
    /\ i = [j \in J |-> 0]
    /\ sctx = [j \in J |-> NoSession]
    /\ held = [j \in J |-> FALSE]
    /\ err = [j \in J |-> Nil]
    /\ stmts = [j \in J |-> <<>>]
    /\ fired = [j \in J |-> <<>>]
    /\ ret = [j \in J |-> NoRet]
    /\ gate = [j \in J |-> NoGate]
    /\ nCalls = [j \in J |-> 0]
    /\ nFiring = [j \in J |-> 0]
    /\ hookCount = [j \in J |-> [success |-> 0, failure |-> 0]]
    /\ gateFired = [j \in J |-> FALSE]
    /\ afterGate = [j \in J |-> 0]

Init == InitOver(Jobs, CtorArgs)

\* ------------------------------------------------------------ bookkeeping
CountKind(hs, kind) == Cardinality({k \in DOMAIN hs : hs[k].kind = kind})

Counted(j, hs) ==
    [success |-> hookCount[j].success + CountKind(hs, "success"),
     failure |-> hookCount[j].failure + CountKind(hs, "failure")]

Stmt(j, gen, ok) ==
    [sql |-> gen.sql, params |-> gen.params, ver |-> job[j].TableStatsVer,
     ok |-> ok]

\* An operation that is not Analyze leaves nothing of an earlier Analyze
\* behind: its locals are gone and the logs describe the last operation.
NoAnalyzeFrame(j) ==
    /\ success' = [success EXCEPT ![j] = TRUE]
    /\ i' = [i EXCEPT ![j] = 0]
    /\ sctx' = [sctx EXCEPT ![j] = NoSession]
    /\ err' = [err EXCEPT ![j] = Nil]
    /\ stmts' = [stmts EXCEPT ![j] = <<>>]

\* ------------------------------------------------------------ operations
RegisterSuccessHook(j, hook) ==
    /\ pc[j] = "idle"
    /\ job' = [job EXCEPT ![j].successHook = hook]
    /\ fired' = [fired EXCEPT ![j] = <<>>]
    /\ ret' = [ret EXCEPT ![j] = [NoRet EXCEPT !.op = "RegisterSuccessHook",
                                              !.arg = hook]]
    /\ gate' = [gate EXCEPT ![j] = NoGate]
    /\ NoAnalyzeFrame(j)
    /\ UNCHANGED <<expect, pc, held, nCalls, nFiring, hookCount, gateFired, afterGate>>

\* Variant: a failure hook already in place is kept.
RegisterFailureHook_KeepsFirst(j, hook) ==
    /\ pc[j] = "idle"
    /\ job' = [job EXCEPT ![j].failureHook = IF @ = Nil THEN hook ELSE @]
    /\ fired' = [fired EXCEPT ![j] = <<>>]
    /\ ret' = [ret EXCEPT ![j] = [NoRet EXCEPT !.op = "RegisterFailureHook",
                                              !.arg = hook]]
    /\ gate' = [gate EXCEPT ![j] = NoGate]
    /\ NoAnalyzeFrame(j)
    /\ UNCHANGED <<expect, pc, held, nCalls, nFiring, hookCount, gateFired, afterGate>>

RegisterFailureHook(j, hook) ==
    /\ pc[j] = "idle"
    /\ job' = [job EXCEPT ![j].failureHook = hook]
    /\ fired' = [fired EXCEPT ![j] = <<>>]
    /\ ret' = [ret EXCEPT ![j] = [NoRet EXCEPT !.op = "RegisterFailureHook",
                                              !.arg = hook]]
    /\ gate' = [gate EXCEPT ![j] = NoGate]
    /\ NoAnalyzeFrame(j)
    /\ UNCHANGED <<expect, pc, held, nCalls, nFiring, hookCount, gateFired, afterGate>>

IsValidToAnalyze(j, ctx) ==
    /\ pc[j] = "idle"
    /\ nCalls[j] < MaxCalls
    /\ LET verdict == isValidToAnalyze(ctx, job[j].TableSchema, job[j].TableName)
           hs      == GateHooks(job[j], j, verdict.valid)
           r       == GateReturn(verdict.valid, verdict.reason)
       IN /\ fired' = [fired EXCEPT ![j] = hs]
          /\ hookCount' = [hookCount EXCEPT ![j] = Counted(j, hs)]
          /\ afterGate' = [afterGate EXCEPT ![j] =
                             IF gateFired[j] THEN @ + Len(hs) ELSE @]
          /\ gateFired' = [gateFired EXCEPT ![j] = @ \/ Len(hs) > 0]
          /\ gate' = [gate EXCEPT ![j] = [ctx |-> ctx, valid |-> verdict.valid,
                                          reason |-> verdict.reason]]
          /\ ret' = [ret EXCEPT ![j] = [NoRet EXCEPT !.op = "IsValidToAnalyze",
                                              !.valid = r.valid,
                                              !.reason = r.reason]]
    /\ nCalls' = [nCalls EXCEPT ![j] = @ + 1]
    /\ nFiring' = [nFiring EXCEPT ![j] =
                     IF isValidToAnalyze(ctx, job[j].TableSchema,
                                         job[j].TableName).valid
                     THEN @ ELSE @ + 1]
    /\ NoAnalyzeFrame(j)
    /\ UNCHANGED <<expect, job, pc, held>>

CallGenSQLForAnalyzeTable(j) ==
    /\ pc[j] = "idle"
    /\ LET g == GenSQLForAnalyzeTable(job[j])
       IN ret' = [ret EXCEPT ![j] = [NoRet EXCEPT !.op = "GenSQLForAnalyzeTable",
                                           !.sql = g.sql, !.params = g.params]]
    /\ fired' = [fired EXCEPT ![j] = <<>>]
    /\ gate' = [gate EXCEPT ![j] = NoGate]
    /\ NoAnalyzeFrame(j)
    /\ UNCHANGED <<expect, job, pc, held, nCalls, nFiring, hookCount, gateFired, afterGate>>

CallGenSQLForAnalyzeIndex(j, index) ==
    /\ pc[j] = "idle"
    /\ LET g == GenSQLForAnalyzeIndex(job[j], index)
       IN ret' = [ret EXCEPT ![j] = [NoRet EXCEPT !.op = "GenSQLForAnalyzeIndex",
                                           !.arg = index,
                                           !.sql = g.sql, !.params = g.params]]
    /\ fired' = [fired EXCEPT ![j] = <<>>]
    /\ gate' = [gate EXCEPT ![j] = NoGate]
    /\ NoAnalyzeFrame(j)
    /\ UNCHANGED <<expect, job, pc, held, nCalls, nFiring, hookCount, gateFired, afterGate>>

\* An operation that only reads the job and returns a value.
Reads(j, op, v) ==
    /\ pc[j] = "idle"
    /\ ret' = [ret EXCEPT ![j] = [NoRet EXCEPT !.op = op, !.val = v]]
    /\ fired' = [fired EXCEPT ![j] = <<>>]
    /\ gate' = [gate EXCEPT ![j] = NoGate]
    /\ NoAnalyzeFrame(j)
    /\ UNCHANGED <<expect, job, pc, held, nCalls, nFiring, hookCount,
                   gateFired, afterGate>>

CallGetTableID(j) == Reads(j, "GetTableID", GetTableID(job[j]))

CallGetWeight(j) == Reads(j, "GetWeight", GetWeight(job[j]))

CallGetIndicators(j) == Reads(j, "GetIndicators", GetIndicators(job[j]))

CallHasNewlyAddedIndex(j) ==
    Reads(j, "HasNewlyAddedIndex", HasNewlyAddedIndex(job[j]))

CallString(j) == Reads(j, "String", String(job[j]))

CallSetWeight(j, weight) ==
    /\ pc[j] = "idle"
    /\ job' = [job EXCEPT ![j] = SetWeight(@, weight)]
    /\ expect' = [expect EXCEPT ![j].Weight = weight]
    /\ ret' = [ret EXCEPT ![j] = [NoRet EXCEPT !.op = "SetWeight"]]
    /\ fired' = [fired EXCEPT ![j] = <<>>]
    /\ gate' = [gate EXCEPT ![j] = NoGate]
    /\ NoAnalyzeFrame(j)
    /\ UNCHANGED <<pc, held, nCalls, nFiring, hookCount, gateFired, afterGate>>

CallSetIndicators(j, indicators) ==
    /\ pc[j] = "idle"
    /\ job' = [job EXCEPT ![j] = SetIndicators(@, indicators)]
    /\ expect' = [expect EXCEPT ![j].Indicators = indicators]
    /\ ret' = [ret EXCEPT ![j] = [NoRet EXCEPT !.op = "SetIndicators"]]
    /\ fired' = [fired EXCEPT ![j] = <<>>]
    /\ gate' = [gate EXCEPT ![j] = NoGate]
    /\ NoAnalyzeFrame(j)
    /\ UNCHANGED <<pc, held, nCalls, nFiring, hookCount, gateFired, afterGate>>

\* Analyze, entry: the flag is set, the deferred function is registered and
\* CallWithSCtx asks the pool for a session.
AnalyzeCall(j) ==
    /\ pc[j] = "idle"
    /\ nCalls[j] < MaxCalls
    /\ pc' = [pc EXCEPT ![j] = "get"]
    /\ success' = [success EXCEPT ![j] = TRUE]
    /\ i' = [i EXCEPT ![j] = 0]
    /\ sctx' = [sctx EXCEPT ![j] = NoSession]
    /\ err' = [err EXCEPT ![j] = Nil]
    /\ stmts' = [stmts EXCEPT ![j] = <<>>]
    /\ fired' = [fired EXCEPT ![j] = <<>>]
    /\ ret' = [ret EXCEPT ![j] = NoRet]
    /\ gate' = [gate EXCEPT ![j] = NoGate]
    /\ nCalls' = [nCalls EXCEPT ![j] = @ + 1]
    /\ nFiring' = [nFiring EXCEPT ![j] = @ + 1]
    /\ UNCHANGED <<expect, job, held, hookCount, gateFired, afterGate>>

\* The pool has no session: CallWithSCtx returns the error, the closure
\* does not run.
SessionGetFail(j) ==
    /\ pc[j] = "get"
    /\ err' = [err EXCEPT ![j] = ErrNoSession]
    /\ pc' = [pc EXCEPT ![j] = "defer"]
    /\ UNCHANGED <<expect, job, success, i, sctx, held, stmts, fired, ret, gate,
                   nCalls, nFiring, hookCount, gateFired, afterGate>>

\* The pool hands out a session and the closure runs up to its first
\* statement.
SessionGetOK(j, s) ==
    /\ pc[j] = "get"
    /\ LET e == ClosureEntry(job[j], s)
       IN /\ pc' = [pc EXCEPT ![j] = e.pc]
          /\ success' = [success EXCEPT ![j] = e.succ]
    /\ sctx' = [sctx EXCEPT ![j] = s]
    /\ held' = [held EXCEPT ![j] = TRUE]
    /\ i' = [i EXCEPT ![j] = 1]
    /\ UNCHANGED <<expect, job, err, stmts, fired, ret, gate, nCalls, nFiring, hookCount,
                   gateFired, afterGate>>

\* analyzeTable: one statement, its outcome is the flag.
ExecAnalyzeTable(j, ok) ==
    /\ pc[j] = "analyzeTable"
    /\ stmts' = [stmts EXCEPT ![j] =
                    Append(@, Stmt(j, GenSQLForAnalyzeTable(job[j]), ok))]
    /\ success' = [success EXCEPT ![j] = ok]
    /\ pc' = [pc EXCEPT ![j] = "put"]
    /\ UNCHANGED <<expect, job, i, sctx, held, err, fired, ret, gate, nCalls, nFiring,
                   hookCount, gateFired, afterGate>>

\* analyzeIndexes, version 1: the statement of the i-th index.
ExecLoopIndex(j, ok) ==
    /\ pc[j] = "loop"
    /\ stmts' = [stmts EXCEPT ![j] =
                    Append(@, Stmt(j, GenSQLForAnalyzeIndex(job[j],
                                          job[j].Indexes[i[j]]), ok))]
    /\ LET n == LoopStep(job[j], i[j], ok)
       IN /\ pc' = [pc EXCEPT ![j] = n.pc]
          /\ success' = [success EXCEPT ![j] = n.succ]
          /\ i' = [i EXCEPT ![j] = n.i]
    /\ UNCHANGED <<expect, job, sctx, held, err, fired, ret, gate, nCalls, nFiring,
                   hookCount, gateFired, afterGate>>

\* analyzeIndexes, other versions: the statement of the first index.
ExecFirstIndex(j, ok) ==
    /\ pc[j] = "first"
    /\ stmts' = [stmts EXCEPT ![j] =
                    Append(@, Stmt(j, GenSQLForAnalyzeIndex(job[j],
                                          firstIndex(job[j])), ok))]
    /\ success' = [success EXCEPT ![j] = ok]
    /\ pc' = [pc EXCEPT ![j] = "put"]
    /\ UNCHANGED <<expect, job, i, sctx, held, err, fired, ret, gate, nCalls, nFiring,
                   hookCount, gateFired, afterGate>>

\* The closure returns and CallWithSCtx gives the session back.
SessionPut(j) ==
    /\ pc[j] = "put"
    /\ held' = [held EXCEPT ![j] = FALSE]
    /\ err' = [err EXCEPT ![j] = CallWithSCtxReturn(ClosureReturn(success[j]))]
    /\ pc' = [pc EXCEPT ![j] = "defer"]
    /\ UNCHANGED <<expect, job, success, i, sctx, stmts, fired, ret, gate, nCalls, nFiring,
                   hookCount, gateFired, afterGate>>

\* The deferred function runs and Analyze returns.
AnalyzeReturn(j) ==
    /\ pc[j] = "defer"
    /\ LET hs == DeferredHooks(job[j], j, success[j])
       IN /\ fired' = [fired EXCEPT ![j] = hs]
          /\ hookCount' = [hookCount EXCEPT ![j] = Counted(j, hs)]
          /\ afterGate' = [afterGate EXCEPT ![j] =
                             IF gateFired[j] THEN @ + Len(hs) ELSE @]
    /\ ret' = [ret EXCEPT ![j] = [NoRet EXCEPT !.op = "Analyze", !.err = err[j]]]
    /\ pc' = [pc EXCEPT ![j] = "idle"]
    /\ UNCHANGED <<expect, job, success, i, sctx, held, err, stmts, gate, nCalls,
                   nFiring, gateFired>>

Next ==
    \/ \E j \in DOMAIN job, h \in Hooks \cup {Nil} : RegisterSuccessHook(j, h)
    \/ \E j \in DOMAIN job, h \in Hooks \cup {Nil} : RegisterFailureHook(j, h)
    \/ \E j \in DOMAIN job, c \in GateContexts : IsValidToAnalyze(j, c)
    \/ \E j \in DOMAIN job : CallGenSQLForAnalyzeTable(j)
    \/ \E j \in DOMAIN job, x \in IndexNames : CallGenSQLForAnalyzeIndex(j, x)
    \/ \E j \in DOMAIN job : AnalyzeCall(j)
    \/ \E j \in DOMAIN job : SessionGetFail(j)
    \/ \E j \in DOMAIN job, v \in Versions :
          SessionGetOK(j, [AnalyzeVersion |-> v])
    \/ \E j \in DOMAIN job, ok \in BOOLEAN : ExecAnalyzeTable(j, ok)
    \/ \E j \in DOMAIN job, ok \in BOOLEAN : ExecLoopIndex(j, ok)
    \/ \E j \in DOMAIN job, ok \in BOOLEAN : ExecFirstIndex(j, ok)
    \/ \E j \in DOMAIN job : SessionPut(j)
    \/ \E j \in DOMAIN job : AnalyzeReturn(j)

Spec == Init /\ [][Next]_vars

\* The collaborators return: a call in progress takes its next step.
AnalyzeStep ==
    \E j \in DOMAIN job :
        \/ SessionGetFail(j)
        \/ \E v \in Versions : SessionGetOK(j, [AnalyzeVersion |-> v])
        \/ \E ok \in BOOLEAN : ExecAnalyzeTable(j, ok)
        \/ \E ok \in BOOLEAN : ExecLoopIndex(j, ok)
        \/ \E ok \in BOOLEAN : ExecFirstIndex(j, ok)
        \/ SessionPut(j)
        \/ AnalyzeReturn(j)

FairCtorArgs ==
    [schema : {"db1"}, tableName : {"t1"}, tableID : {100},
     indexes : SeqsUpTo(IndexNames, MaxIndexes), tableStatsVer : {1},
     indicators : IndicatorValues]

InitFair == InitOver(Jobs, FairCtorArgs)

SpecFair == InitFair /\ [][Next]_vars /\ WF_vars(AnalyzeStep)

\* The job with its accessors: the inputs that only Analyze looks at are
\* few, the weight and the indicators vary.
Weights == {1, 2}
IndicatorInputs ==
    IndicatorValues \cup
    {[ChangePercentage |-> 0, TableSize |-> 20, LastAnalysisDuration |-> 7]}

AccessorCtorArgs ==
    [schema : {"db1"}, tableName : {"t1"}, tableID : {100, 200},
     indexes : {<<>>, <<"ia", "ib">>}, tableStatsVer : StatsVersions,
     indicators : IndicatorInputs]

InitAccessors == InitOver(Jobs, AccessorCtorArgs)

NextAccessors ==
    \/ Next
    \/ \E j \in DOMAIN job : CallGetTableID(j)
    \/ \E j \in DOMAIN job : CallGetWeight(j)
    \/ \E j \in DOMAIN job : CallGetIndicators(j)
    \/ \E j \in DOMAIN job : CallHasNewlyAddedIndex(j)
    \/ \E j \in DOMAIN job : CallString(j)
    \/ \E j \in DOMAIN job, w \in Weights : CallSetWeight(j, w)
    \/ \E j \in DOMAIN job, x \in IndicatorInputs : CallSetIndicators(j, x)

SpecAccessors == InitAccessors /\ [][NextAccessors]_vars

\* Two job instances, each driven by its own worker, in any interleaving.
\* The scheduler registers the hooks of a job before it admits it, and
\* registers on job j the hook that reports for j; it checks a job at most
\* once, before anything else, and calls Analyze on it at most once.
Workers == {1, 2}
HookOf(j) == IF j = 1 THEN "h1" ELSE "h2"
WorkerCtorArgs ==
    [schema : {"db1"}, tableName : {"t1"}, tableID : {100},
     indexes : {<<>>, <<"ia", "ib">>}, tableStatsVer : {1},
     indicators : IndicatorValues]
WorkerContexts == {c \in GateContexts : c.blocked \subseteq {<<"db1", "t1">>}}
NotAdmitted(j) == nCalls[j] = 0
NotAnalyzed(j) == nCalls[j] = 0 \/ (nCalls[j] = 1 /\ ret[j].op = "IsValidToAnalyze")

InitWorkers == InitOver(Workers, WorkerCtorArgs)

NextWorkers ==
    \/ \E j \in DOMAIN job : \E h \in {HookOf(j), Nil} :
          NotAdmitted(j) /\ RegisterSuccessHook(j, h)
    \/ \E j \in DOMAIN job : \E h \in {HookOf(j), Nil} :
          NotAdmitted(j) /\ RegisterFailureHook(j, h)
    \/ \E j \in DOMAIN job, c \in WorkerContexts :
          NotAdmitted(j) /\ IsValidToAnalyze(j, c)
    \/ \E j \in DOMAIN job : NotAnalyzed(j) /\ AnalyzeCall(j)
    \/ AnalyzeStep

SpecWorkers == InitWorkers /\ [][NextWorkers]_vars

\* ---------------------------------------------------------------- claims
AnalyzeDone(j) == pc[j] = "idle" /\ ret[j].op = "Analyze"
GateDone(j)    == pc[j] = "idle" /\ ret[j].op = "IsValidToAnalyze"
Acquired(j)    == sctx[j] # NoSession
FiredKinds(j)  == {fired[j][k].kind : k \in DOMAIN fired[j]}
AllOK(ss)      == \A k \in DOMAIN ss : ss[k].ok
BothHooks(j)   == job[j].successHook # Nil /\ job[j].failureHook # Nil

\* C1 (as stated): every Analyze call, on each of its exit paths, has
\* invoked exactly one hook, exactly once, when it returns.
C1_ExactlyOneHookPerAnalyze ==
    \A j \in DOMAIN job : AnalyzeDone(j) => Len(fired[j]) = 1

\* C1 (amended): when Analyze returns it has made at most one hook
\* invocation; it has made exactly one if and only if the hook its flag
\* selects (successHook for true, failureHook for false) is registered, and
\* so exactly one whenever both hooks are registered, on every exit path.
C1_SelectedHookOnceIfRegistered ==
    \A j \in DOMAIN job :
        AnalyzeDone(j) =>
            /\ Len(fired[j]) <= 1
            /\ Len(fired[j]) = 1
                 <=> (IF success[j] THEN job[j].successHook
                                    ELSE job[j].failureHook) # Nil
            /\ BothHooks(j) => Len(fired[j]) = 1

\* C1 witness: an Analyze call that got no session returned an error and
\* made exactly one hook invocation.
C1_Witness ==
    \E j \in DOMAIN job :
        /\ AnalyzeDone(j) /\ ~Acquired(j) /\ ret[j].err # Nil
        /\ BothHooks(j) /\ Len(fired[j]) = 1

\* C2 (as stated): over any sequence of calls each hook is invoked at most
\* once per job instance, and nothing is invoked any more once
\* IsValidToAnalyze has fired the failure hook.
C2_EachHookAtMostOnceEver ==
    \A j \in DOMAIN job :
        /\ hookCount[j].success <= 1
        /\ hookCount[j].failure <= 1
        /\ afterGate[j] = 0

\* C2 (amended): each Analyze call and each negative IsValidToAnalyze call
\* makes at most one hook invocation and a positive IsValidToAnalyze makes
\* none, so the invocations on a job instance never outnumber those calls;
\* a job on which at most one such call is made has each hook invoked at
\* most once.
C2_AtMostOneHookPerFiringCall ==
    \A j \in DOMAIN job :
        /\ hookCount[j].success + hookCount[j].failure <= nFiring[j]
        /\ nFiring[j] <= 1 =>
              /\ hookCount[j].success <= 1
              /\ hookCount[j].failure <= 1
              /\ afterGate[j] = 0

\* C2 witness: after a negative IsValidToAnalyze fired the failure hook, an
\* Analyze call on the same instance invoked a hook again.
C2_Witness ==
    \E j \in DOMAIN job :
        /\ AnalyzeDone(j) /\ gateFired[j] /\ afterGate[j] = 1
        /\ nFiring[j] = 2
        /\ hookCount[j].success + hookCount[j].failure = 2

\* C3 (as stated): Analyze invokes the success hook only if a session was
\* acquired and every statement it executed returned true.
C3_SuccessHookOnlyOnSuccess ==
    \A j \in DOMAIN job :
        (AnalyzeDone(j) /\ "success" \in FiredKinds(j)) =>
            /\ Acquired(j)
            /\ ret[j].err = Nil
            /\ AllOK(stmts[j])

\* C4 (as stated): with a session acquired, the success hook is fired if
\* and only if the branch taken returned true and the failure hook if and
\* only if it returned false.
C4_HookIffOutcome ==
    \A j \in DOMAIN job :
        (AnalyzeDone(j) /\ Acquired(j)) =>
            /\ "success" \in FiredKinds(j) <=> AllOK(stmts[j])
            /\ "failure" \in FiredKinds(j) <=> ~AllOK(stmts[j])

\* C4 (amended): with a session acquired, the success hook is fired if and
\* only if the branch taken returned true and a success hook is registered,
\* and the failure hook if and only if the branch returned false and a
\* failure hook is registered.
C4_RegisteredHookIffOutcome ==
    \A j \in DOMAIN job :
        (AnalyzeDone(j) /\ Acquired(j)) =>
            /\ "success" \in FiredKinds(j)
                 <=> (AllOK(stmts[j]) /\ job[j].successHook # Nil)
            /\ "failure" \in FiredKinds(j)
                 <=> (~AllOK(stmts[j]) /\ job[j].failureHook # Nil)

\* C4 witness: a version-1 index analysis whose second statement failed
\* fired the failure hook.
C4_Witness ==
    \E j \in DOMAIN job :
        /\ AnalyzeDone(j) /\ Acquired(j) /\ BothHooks(j)
        /\ Len(stmts[j]) = 2 /\ stmts[j][1].ok /\ ~stmts[j][2].ok
        /\ FiredKinds(j) = {"failure"}

\* C5: Analyze returns an error if and only if no session could be
\* acquired, and then no statement was executed; with a session it returns
\* nil whatever the statements returned.
C5_ErrorIffNoSession ==
    \A j \in DOMAIN job :
        AnalyzeDone(j) =>
            /\ ret[j].err # Nil <=> ~Acquired(j)
            /\ ~Acquired(j) => stmts[j] = <<>>
            /\ Acquired(j) => ret[j].err = Nil

\* C5 witness: every statement of an Analyze call failed and the call
\* returned nil.
C5_Witness ==
    \E j \in DOMAIN job :
        /\ AnalyzeDone(j) /\ Acquired(j)
        /\ stmts[j] # <<>> /\ \A k \in DOMAIN stmts[j] : ~stmts[j][k].ok
        /\ ret[j].err = Nil

\* What the oracle decides for the job's schema and table in the context
\* the last IsValidToAnalyze was called with.
OracleFor(j) ==
    isValidToAnalyze(gate[j].ctx, job[j].TableSchema, job[j].TableName)

TableTemplate == <<"analyze table ", "%n", ".", "%n">>
IndexTemplate == <<"analyze table ", "%n", ".", "%n", " index ", "%n">>
Placeholders(sql) == Cardinality({k \in DOMAIN sql : sql[k] = "%n"})
IsTableStmt(j, st) ==
    /\ st.sql = TableTemplate
    /\ st.params = <<job[j].TableSchema, job[j].TableName>>
IsIndexStmt(j, st, index) ==
    /\ st.sql = IndexTemplate
    /\ st.params = <<job[j].TableSchema, job[j].TableName, index>>

\* C6 (as stated): IsValidToAnalyze returns what the oracle decides for
\* (TableSchema, TableName); on a negative verdict it fires the failure
\* hook exactly once and returns (false, reason), on a positive one it
\* returns (true, "") and fires nothing; it never fires the success hook,
\* acquires a session or executes a statement.
C6_GateFiresFailureHookOnce ==
    \A j \in DOMAIN job :
        GateDone(j) =>
            /\ ret[j].valid = OracleFor(j).valid
            /\ ~OracleFor(j).valid =>
                  /\ ret[j].reason = OracleFor(j).reason
                  /\ Len(fired[j]) = 1 /\ FiredKinds(j) = {"failure"}
            /\ OracleFor(j).valid => (ret[j].reason = "" /\ fired[j] = <<>>)
            /\ "success" \notin FiredKinds(j)
            /\ ~held[j] /\ ~Acquired(j) /\ stmts[j] = <<>>

\* C6 (amended): as C6, except that on a negative verdict the failure hook
\* is fired exactly once if a failure hook is registered and nothing is
\* fired if none is.
C6_GateFiresRegisteredFailureHook ==
    \A j \in DOMAIN job :
        GateDone(j) =>
            /\ ret[j].valid = OracleFor(j).valid
            /\ ~OracleFor(j).valid =>
                  /\ ret[j].reason = OracleFor(j).reason
                  /\ job[j].failureHook # Nil =>
                        (Len(fired[j]) = 1 /\ FiredKinds(j) = {"failure"})
                  /\ job[j].failureHook = Nil => fired[j] = <<>>
            /\ OracleFor(j).valid => (ret[j].reason = "" /\ fired[j] = <<>>)
            /\ "success" \notin FiredKinds(j)
            /\ ~held[j] /\ ~Acquired(j) /\ stmts[j] = <<>>

\* C6 witness: a negative verdict with both hooks registered fired the
\* failure hook once and returned the oracle's reason.
C6_Witness ==
    \E j \in DOMAIN job :
        /\ GateDone(j) /\ BothHooks(j) /\ ~ret[j].valid
        /\ ret[j].reason \in Reasons
        /\ Len(fired[j]) = 1 /\ fired[j][1].kind = "failure"

\* C7: with analyze version 1 and a non-empty index list I[1..n], Analyze
\* executes the index statements of I[1], I[2], ... in list order and stops
\* at the first that fails: the statements run are those of I[1..m], all
\* but the last succeeded, m < n only if the m-th failed, and the outcome is
\* the outcome of the m-th.
C7_Version1StopsAtFirstFailure ==
    \A j \in DOMAIN job :
        (AnalyzeDone(j) /\ Acquired(j) /\ sctx[j].AnalyzeVersion = 1
            /\ Len(job[j].Indexes) >= 1) =>
            LET n == Len(job[j].Indexes)
                m == Len(stmts[j])
            IN /\ 1 <= m /\ m <= n
               /\ \A k \in 1..m : IsIndexStmt(j, stmts[j][k], job[j].Indexes[k])
               /\ \A k \in 1..(m - 1) : stmts[j][k].ok
               /\ m < n => ~stmts[j][m].ok
               /\ success[j] = stmts[j][m].ok

\* C7 witness: of three indexes the second failed; two statements were run
\* and the outcome is failure.
C7_Witness ==
    \E j \in DOMAIN job :
        /\ AnalyzeDone(j) /\ Acquired(j) /\ sctx[j].AnalyzeVersion = 1
        /\ Len(job[j].Indexes) = 3 /\ Len(stmts[j]) = 2
        /\ stmts[j][1].ok /\ ~stmts[j][2].ok /\ ~success[j]

\* C8: with analyze version 2 or greater and a non-empty index list,
\* Analyze executes exactly one statement, that of the first index, and the
\* outcome, and the kind of any hook fired, is that statement's outcome.
C8_Version2FirstIndexOnly ==
    \A j \in DOMAIN job :
        (AnalyzeDone(j) /\ Acquired(j) /\ sctx[j].AnalyzeVersion >= 2
            /\ Len(job[j].Indexes) >= 1) =>
            /\ Len(stmts[j]) = 1
            /\ IsIndexStmt(j, stmts[j][1], job[j].Indexes[1])
            /\ success[j] = stmts[j][1].ok
            /\ FiredKinds(j) \subseteq
                  {IF stmts[j][1].ok THEN "success" ELSE "failure"}

\* C8 witness: three indexes, the last differing from the first, and one
\* statement run.
C8_Witness ==
    \E j \in DOMAIN job :
        /\ AnalyzeDone(j) /\ Acquired(j) /\ sctx[j].AnalyzeVersion >= 2
        /\ Len(job[j].Indexes) = 3
        /\ job[j].Indexes[1] # job[j].Indexes[3]
        /\ Len(stmts[j]) = 1 /\ Len(fired[j]) = 1

C10_SQLKeepsIdentifiersAsParams ==
    \A j \in DOMAIN job :
        /\ ret[j].op = "GenSQLForAnalyzeTable" =>
              /\ ret[j].sql = TableTemplate
              /\ ret[j].params = <<job[j].TableSchema, job[j].TableName>>
              /\ Placeholders(ret[j].sql) = 2
        /\ ret[j].op = "GenSQLForAnalyzeIndex" =>
              /\ ret[j].sql = IndexTemplate
              /\ ret[j].params =
                    <<job[j].TableSchema, job[j].TableName, ret[j].arg>>
              /\ Placeholders(ret[j].sql) = 3
        /\ \A k \in DOMAIN stmts[j] :
              /\ stmts[j][k].sql \in {TableTemplate, IndexTemplate}
              /\ Placeholders(stmts[j][k].sql) = Len(stmts[j][k].params)
              /\ \A p \in DOMAIN stmts[j][k].sql :
                    stmts[j][k].sql[p] \notin Schemas \cup Tables \cup IndexNames

\* C10 witness: GenSQLForAnalyzeIndex was called with an index name on a
\* job of the second schema.
C10_Witness ==
    \E j \in DOMAIN job :
        /\ ret[j].op = "GenSQLForAnalyzeIndex" /\ ret[j].arg = "ib"
        /\ job[j].TableSchema = "db2" /\ job[j].TableName = "t1"
        /\ Len(ret[j].params) = 3

Fresh(j) == pc[j] = "idle" /\ ret[j].op = "none" /\ nCalls[j] = 0

\* C11: GetIndicators returns the indicators the job was constructed with
\* or, after SetIndicators(x), x; GetWeight returns 0 or, after
\* SetWeight(w), w; GetTableID returns the constructor's table id; a job on
\* which nothing has been called has weight 0 and no hooks.
C11_AccessorRoundTrip ==
    \A j \in DOMAIN job :
        /\ ret[j].op = "GetIndicators" => ret[j].val = expect[j].Indicators
        /\ ret[j].op = "GetWeight" => ret[j].val = expect[j].Weight
        /\ ret[j].op = "GetTableID" => ret[j].val = expect[j].TableID
        /\ Fresh(j) =>
              /\ job[j].Weight = 0
              /\ job[j].successHook = Nil /\ job[j].failureHook = Nil
              /\ job[j].Indicators = expect[j].Indicators
              /\ job[j].TableID = expect[j].TableID

\* C11 witness: GetIndicators returned indicators that SetIndicators had
\* put in place of other ones, on a job whose weight had been set too.
C11_Witness ==
    \E j \in DOMAIN job :
        /\ ret[j].op = "GetIndicators"
        /\ ret[j].val = [ChangePercentage |-> 0, TableSize |-> 20,
                         LastAnalysisDuration |-> 7]
        /\ job[j].Weight = 2 /\ nCalls[j] > 0

HookFiredByAnalyze(j) ==
    fired[j] = <<>> /\ fired'[j] # <<>> /\ ret'[j].op = "Analyze"
StatementRun(j) == Len(stmts'[j]) > Len(stmts[j])

\* C12: inside an Analyze call a hook is invoked in the step in which
\* Analyze returns, when the session of the call has been given back and
\* with no statement run in or after that step; every statement is run
\* while the session is held and before any hook of the call.
C12_HookAfterStatementsAndRelease ==
    [][\A j \in DOMAIN job :
          /\ HookFiredByAnalyze(j) =>
                /\ pc[j] = "defer" /\ pc'[j] = "idle"
                /\ ~held[j] /\ ~held'[j]
                /\ stmts'[j] = stmts[j]
          /\ StatementRun(j) =>
                /\ held[j] /\ held'[j]
                /\ fired[j] = <<>> /\ fired'[j] = <<>>]_vars

\* C12 witness: a hook has fired after three statements, the session
\* given back.
C12_Witness ==
    \E j \in DOMAIN job :
        /\ AnalyzeDone(j) /\ Len(stmts[j]) = 3 /\ Len(fired[j]) = 1
        /\ ~held[j]

\* The indexes whose statistics the statements of the call refreshed: a
\* statement run with version 1 refreshes the index it names, one run with
\* a later version all of them.
Refreshed(j) ==
    UNION {IF stmts[j][k].ver = 1
           THEN {stmts[j][k].params[3]}
           ELSE {job[j].Indexes[n] : n \in DOMAIN job[j].Indexes} :
           k \in {q \in DOMAIN stmts[j] : stmts[j][q].ok}}

\* C13 (as stated): whenever Analyze takes the index branch and fires the
\* success hook, every index of the list has had its statistics refreshed,
\* for every combination of the session's analyze version and the job's
\* TableStatsVer.
C13_SuccessCoversEveryIndex ==
    \A j \in DOMAIN job :
        (AnalyzeDone(j) /\ Acquired(j) /\ HasNewlyAddedIndex(job[j])
            /\ "success" \in FiredKinds(j)) =>
            \A n \in DOMAIN job[j].Indexes : job[j].Indexes[n] \in Refreshed(j)

Max(a, b) == IF a >= b THEN a ELSE b

\* The statements of the call so far are one per position of the list, in
\* order, none after a failed one, and no more than max(1, n).
WorkBounded(j) ==
    LET n == Len(job[j].Indexes)
        m == Len(stmts[j])
    IN /\ m <= Max(1, n)
       /\ \A k \in 1..(m - 1) : stmts[j][k].ok
       /\ n > 0 => \A k \in 1..m : IsIndexStmt(j, stmts[j][k], job[j].Indexes[k])
       /\ (AnalyzeDone(j) /\ Acquired(j)
             /\ (n = 0 \/ sctx[j].AnalyzeVersion >= 2)) => m = 1

\* C15: an Analyze call runs the statement of each list position at most
\* once, none after a failed one, at most max(1, n) in all and exactly one
\* on the table path and on the version >= 2 index path; if the pool and
\* the statements return, the call returns.
C15_NoRetryBoundedWorkTerminates ==
    /\ [](\A j \in Jobs : WorkBounded(j))
    /\ \A j \in Jobs : (pc[j] # "idle") ~> (pc[j] = "idle")

\* C15 witness: a version-1 call over three indexes has returned with
\* three statements run, all successful.
C15_Witness ==
    \E j \in DOMAIN job :
        /\ AnalyzeDone(j) /\ sctx[j].AnalyzeVersion = 1
        /\ Len(job[j].Indexes) = 3 /\ Len(stmts[j]) = 3 /\ AllOK(stmts[j])

Mutators ==
    {"SetWeight", "SetIndicators", "RegisterSuccessHook", "RegisterFailureHook"}

\* C14: a step changes the fields of a job only if it is SetWeight,
\* SetIndicators, RegisterSuccessHook or RegisterFailureHook, and then at
\* most the weight, the indicators, the success hook or the failure hook
\* respectively; Analyze, IsValidToAnalyze, the Get* accessors,
\* HasNewlyAddedIndex, the GenSQL* functions and String change no field.
C14_FrameCondition ==
    [][\A j \in DOMAIN job :
          /\ job'[j] # job[j] => ret'[j].op \in Mutators
          /\ ret'[j].op = "SetWeight" =>
                job'[j] = [job[j] EXCEPT !.Weight = job'[j].Weight]
          /\ ret'[j].op = "SetIndicators" =>
                job'[j] = [job[j] EXCEPT !.Indicators = job'[j].Indicators]
          /\ ret'[j].op = "RegisterSuccessHook" =>
                job'[j] = [job[j] EXCEPT !.successHook = job'[j].successHook]
          /\ ret'[j].op = "RegisterFailureHook" =>
                job'[j] = [job[j] EXCEPT !.failureHook = job'[j].failureHook]
      ]_vars

\* C14 witness: SetWeight has changed the weight of a job that has both
\* hooks, two indexes and indicators other than the constructor's first.
C14_Witness ==
    \E j \in DOMAIN job :
        /\ ret[j].op = "SetWeight" /\ job[j].Weight = 1 /\ BothHooks(j)
        /\ Len(job[j].Indexes) = 2 /\ job[j].Indicators.TableSize = 20
        /\ hookCount[j].success + hookCount[j].failure > 0

\* C16: the branch of analyzeIndexes that returns true without running a
\* statement is never taken: a call is in the index policy only with a
\* non-empty list, the closure never ends with no statement run, and a
\* call that acquired a session has run at least one statement when its
\* deferred function runs and when it returns.
C16_NoOpBranchNeverTaken ==
    \A j \in DOMAIN job :
        /\ pc[j] \in {"loop", "first"} => Len(job[j].Indexes) > 0
        /\ pc[j] = "put" => stmts[j] # <<>>
        /\ (pc[j] = "defer" /\ Acquired(j)) => stmts[j] # <<>>
        /\ (AnalyzeDone(j) /\ Acquired(j)) => Len(stmts[j]) >= 1

\* C16 witness: the closure of a call on a job with one index has run its
\* one statement and is about to return.
C16_Witness ==
    \E j \in DOMAIN job :
        /\ pc[j] = "put" /\ getAnalyzeType(job[j]) = analyzeIndex
        /\ Len(job[j].Indexes) = 1 /\ Len(stmts[j]) = 1
        /\ sctx[j].AnalyzeVersion >= 2

SlotOf(j, kind) ==
    IF kind = "success" THEN job[j].successHook ELSE job[j].failureHook
WithoutHooks(r) == [r EXCEPT !.successHook = Nil, !.failureHook = Nil]
\* The collaborators answered two finished Analyze calls alike: the same
\* session or none, and the same outcome for the statements both ran.
SameAnswers(j, k) ==
    /\ sctx[j] = sctx[k]
    /\ \A n \in DOMAIN stmts[j] \cap DOMAIN stmts[k] :
          stmts[j][n].ok = stmts[k][n].ok

\* C17: a hook that is invoked is a registered one, read from the slot of
\* its kind; when the hook the outcome selects is not registered nothing is
\* invoked, the other hook is not called in its place; and two jobs that
\* differ in their hooks only, given the same answers by the pool, the
\* statements and the oracle, run the same statements and return the same
\* values.
C17_HooksAreOptional ==
    /\ \A j \in DOMAIN job :
          /\ \A n \in DOMAIN fired[j] :
                /\ fired[j][n].hook # Nil
                /\ fired[j][n].hook = SlotOf(j, fired[j][n].kind)
          /\ (AnalyzeDone(j) /\ success[j] /\ job[j].successHook = Nil) =>
                fired[j] = <<>>
          /\ (AnalyzeDone(j) /\ ~success[j] /\ job[j].failureHook = Nil) =>
                fired[j] = <<>>
          /\ (GateDone(j) /\ job[j].failureHook = Nil) => fired[j] = <<>>
    /\ \A j, k \in DOMAIN job :
          WithoutHooks(job[j]) = WithoutHooks(job[k]) =>
             /\ (AnalyzeDone(j) /\ AnalyzeDone(k) /\ SameAnswers(j, k)) =>
                   /\ stmts[j] = stmts[k]
                   /\ ret[j] = ret[k]
                   /\ success[j] = success[k]
             /\ (GateDone(j) /\ GateDone(k) /\ gate[j].ctx = gate[k].ctx) =>
                   ret[j] = ret[k]

\* C17 witness: of two jobs alike but for their hooks, the one without
\* hooks and the one with both have run the same two statements, the
\* second failed, and only the second job fired a hook.
C17_Witness ==
    /\ DOMAIN job = Workers
    /\ WithoutHooks(job[1]) = WithoutHooks(job[2])
    /\ job[1].successHook = Nil /\ job[1].failureHook = Nil /\ BothHooks(2)
    /\ AnalyzeDone(1) /\ AnalyzeDone(2)
    /\ Len(stmts[1]) = 2 /\ stmts[1] = stmts[2] /\ ~stmts[1][2].ok
    /\ fired[1] = <<>> /\ Len(fired[2]) = 1

\* C18: in every interleaving of the workers, a hook invoked by an
\* operation on job j is the hook registered on j in the slot of its kind
\* and is handed j; the kind fired by Analyze on j is the one j's own flag
\* selects, which with a session is the outcome of j's own statements; and
\* a step changes the hook counts of the one job whose operation it is.
C18_JobsAreIndependent ==
    /\ [](\A j \in Workers :
            /\ \A n \in DOMAIN fired[j] :
                  /\ fired[j][n].arg = j
                  /\ fired[j][n].hook = SlotOf(j, fired[j][n].kind)
            /\ AnalyzeDone(j) =>
                  /\ FiredKinds(j) \subseteq
                        {IF success[j] THEN "success" ELSE "failure"}
                  /\ Acquired(j) => success[j] = AllOK(stmts[j]))
    /\ [][\A j \in Workers :
            hookCount'[j] # hookCount[j] =>
               /\ fired'[j] # <<>>
               /\ pc[j] = "defer" \/ ret'[j].op = "IsValidToAnalyze"
               /\ \A k \in Workers \ {j} :
                     hookCount'[k] = hookCount[k] /\ fired'[k] = fired[k]]_vars

\* C18 witness: both workers have finished Analyze; job 1 failed and fired
\* its failure hook, job 2 succeeded and fired its success hook.
C18_Witness ==
    /\ DOMAIN job = Workers
    /\ AnalyzeDone(1) /\ AnalyzeDone(2)
    /\ Acquired(1) /\ ~AllOK(stmts[1]) /\ Acquired(2) /\ AllOK(stmts[2])
    /\ fired[1] = <<[kind |-> "failure", hook |-> "h1", arg |-> 1]>>
    /\ fired[2] = <<[kind |-> "success", hook |-> "h2", arg |-> 2]>>

\* C19: RegisterSuccessHook(h) and RegisterFailureHook(h) leave h in their
\* slot, whatever was there; no other step changes a slot; and a hook that
\* Analyze or IsValidToAnalyze invokes is the one in the slot of its kind
\* at that moment.  So only the hook registered last is ever invoked.
C19_LastRegisteredHookWins ==
    /\ [](\A j \in Jobs :
            /\ ret[j].op = "RegisterSuccessHook" =>
                  job[j].successHook = ret[j].arg
            /\ ret[j].op = "RegisterFailureHook" =>
                  job[j].failureHook = ret[j].arg
            /\ \A n \in DOMAIN fired[j] :
                  fired[j][n].hook = SlotOf(j, fired[j][n].kind))
    /\ [][\A j \in Jobs :
            /\ job'[j].successHook # job[j].successHook =>
                  ret'[j].op = "RegisterSuccessHook"
            /\ job'[j].failureHook # job[j].failureHook =>
                  ret'[j].op = "RegisterFailureHook"
            /\ fired'[j] # fired[j] =>
                  \A n \in DOMAIN fired'[j] :
                     fired'[j][n].hook =
                        IF fired'[j][n].kind = "success"
                        THEN job[j].successHook ELSE job[j].failureHook]_vars

\* C19 witness: the failure hook has been invoked twice on a job, the
\* second time by Analyze as h2, the hook now in the slot.
C19_Witness ==
    \E j \in DOMAIN job :
        /\ AnalyzeDone(j) /\ hookCount[j].failure = 2 /\ gateFired[j]
        /\ fired[j] = <<[kind |-> "failure", hook |-> "h2", arg |-> j]>>
        /\ job[j].successHook = "h1"

====
